---- MODULE Spec2Model ----
(***************************************************************************)
(* Model of src/src/011026_WBM_Instance.py: the Wayback Machine quarterly  *)
(* archive pipeline (CDX fetch with retry, quarter bucketing, selection of *)
(* one snapshot per quarter, optional download, sequential batch loop).    *)
(*                                                                         *)
(* Strings that the code slices and converts with int() (timestamps) are   *)
(* sequences of character codes: 0..9 are the digits, NonDigit is any other *)
(* character.  Other strings (host names, urls) are TLA+ strings.          *)
(***************************************************************************)
EXTENDS Integers, Sequences, FiniteSets, TLC

VARIABLES
    instances,      \* main: the host list returned by load_instances
    download_dir,   \* main: TRUE iff args.download_dir was given
    retries,        \* the `retries` parameter of both retry loops
    json_error_class, \* class of the exception response.json() raises on a bad body
    index,          \* the kinds of body the archive index answers with
    run,            \* number of the current invocation of main (1, 2, ...)
    pc,             \* position of the program
    i,              \* main: position in instances (1-based)
    url,            \* process_instance: scheme of the url being queried
    attempt,        \* loop variable of the retry loop that is running
    records,        \* process_instance: the records of the last query
    quarterly,      \* process_instance: result of filter_quarterly
    results,        \* main: result of process_instance for the current host
    all_results,    \* main: the aggregated results
    j,              \* main: position in results of the download loop (1-based)
    files,          \* the download directory: path -> content state
    requests,       \* requests.get calls made by the retry loop that is running
    slept,          \* time.sleep arguments of the retry loop that is running
    queries,        \* fetch_cdx_records calls of the current host, with what each returned
    previous,       \* how the previous invocation ended ("" in the first one)
    selected_before, \* paths of the snapshots a completed previous invocation selected
    success,        \* return value of the last download_snapshot call
    writes,         \* number of times the output file was written in this run
    error           \* the exception that ended the run, "" if none

vars == <<instances, download_dir, retries, json_error_class, index, run, pc, i, url,
          attempt, records, quarterly, results, all_results, j, files,
          requests, slept, queries, previous, selected_before, success, writes,
          error>>

----------------------------------------------------------------------------
(* Bounds of the model *)

MaxLen == 3         \* longest record list handed to filter_quarterly in SpecSel
MaxHosts == 2       \* longest host list in Spec and SpecRetry
MaxRetries == 3     \* largest retry ceiling in SpecRetry
MaxRuns == 2        \* invocations of main on one download directory in SpecRerun
MaxRerunHosts == 1  \* longest host list in SpecRerun

(* Program constants *)

DefaultRetries == 3
WAYBACK_BASE == "https://web.archive.org/web"

----------------------------------------------------------------------------
(* Character strings as sequences of codes *)

NonDigit == 10

IsDigit(c) == c \in 0..9

Slice(s, n) == SubSeq(s, 1, IF Len(s) < n THEN Len(s) ELSE n)

SliceFrom(s, a, b) ==
    SubSeq(s, a + 1, IF Len(s) < b THEN Len(s) ELSE b)

\* int(s) raises ValueError unless s is a non-empty string of digits
IntRaises(s) == Len(s) = 0 \/ \E k \in 1..Len(s) : ~IsDigit(s[k])

RECURSIVE ToInt(_)
ToInt(s) ==
    IF Len(s) = 0 THEN 0
    ELSE 10 * ToInt(SubSeq(s, 1, Len(s) - 1)) + s[Len(s)]

----------------------------------------------------------------------------
(* get_quarter *)

get_quarter_raises(timestamp) ==
    IntRaises(Slice(timestamp, 4)) \/ IntRaises(SliceFrom(timestamp, 4, 6))

get_quarter(timestamp) ==
    LET year == ToInt(Slice(timestamp, 4))
        month == ToInt(SliceFrom(timestamp, 4, 6))
        quarter == ((month - 1) \div 3) + 1
    IN <<year, quarter>>

----------------------------------------------------------------------------
(* filter_quarterly *)

HasKey(record, key) == key \in DOMAIN record

\* the by_quarter dictionary: its keys, and the list stored under a key
QuarterKeys(recs) == {get_quarter(recs[k]["timestamp"]) : k \in 1..Len(recs)}

RECURSIVE Candidates(_, _)
Candidates(recs, quarter_key) ==
    IF Len(recs) = 0 THEN <<>>
    ELSE LET rest == Candidates(SubSeq(recs, 1, Len(recs) - 1), quarter_key)
             last == recs[Len(recs)]
         IN IF get_quarter(last["timestamp"]) = quarter_key
            THEN Append(rest, last) ELSE rest

\* tuple order of Python on (year, quarter)
KeyLess(a, b) == a[1] < b[1] \/ (a[1] = b[1] /\ a[2] < b[2])

RECURSIVE SortedKeys(_)
SortedKeys(keys) ==
    IF keys = {} THEN <<>>
    ELSE LET least == CHOOSE a \in keys : \A b \in keys \ {a} : KeyLess(a, b)
         IN <<least>> \o SortedKeys(keys \ {least})

MidMonth(quarter) == (quarter - 1) * 3 + 2

\* f"{year}{mid_month:02d}15": a negative mid_month prints a minus sign, on
\* which int(target[:8]) raises ValueError
TargetRaises(quarter_key) == MidMonth(quarter_key[2]) < 0

\* int(target[:8]) for a two-digit mid_month (a month field has two digits,
\* so mid_month is at most 98)
Target(quarter_key) ==
    quarter_key[1] * 10000 + MidMonth(quarter_key[2]) * 100 + 15

Abs(x) == IF x < 0 THEN 0 - x ELSE x

Distance(record, quarter_key) ==
    Abs(ToInt(Slice(record["timestamp"], 8)) - Target(quarter_key))

\* a scan that also replaces the current best by an equal key
RECURSIVE MinFromKeepsLast(_, _, _, _)
MinFromKeepsLast(candidates, quarter_key, k, best) ==
    IF k > Len(candidates) THEN best
    ELSE MinFromKeepsLast(candidates, quarter_key, k + 1,
                 IF Distance(candidates[k], quarter_key) <= Distance(best, quarter_key)
                 THEN candidates[k] ELSE best)

\* min(candidates, key=...): scans left to right and replaces the current
\* best only by a strictly smaller key
RECURSIVE MinFrom(_, _, _, _)
MinFrom(candidates, quarter_key, k, best) ==
    IF k > Len(candidates) THEN best
    ELSE MinFrom(candidates, quarter_key, k + 1,
                 IF Distance(candidates[k], quarter_key) < Distance(best, quarter_key)
                 THEN candidates[k] ELSE best)

Best(candidates, quarter_key) == MinFrom(candidates, quarter_key, 2, candidates[1])

filter_quarterly_raises(recs) ==
    \E k \in 1..Len(recs) :
        \/ ~HasKey(recs[k], "timestamp")
        \/ get_quarter_raises(recs[k]["timestamp"])
        \/ TargetRaises(get_quarter(recs[k]["timestamp"]))
        \/ IntRaises(Slice(recs[k]["timestamp"], 8))

\* a selection that keeps every record
filter_quarterly_keeps_all(recs) == recs

filter_quarterly(recs) ==
    IF Len(recs) = 0 THEN <<>>
    ELSE LET keys == SortedKeys(QuarterKeys(recs))
         IN [n \in 1..Len(keys) |-> Best(Candidates(recs, keys[n]), keys[n])]

----------------------------------------------------------------------------
(* build_wayback_url and the result rows of process_instance *)

build_wayback_url(timestamp, original_url, raw) ==
    IF raw THEN <<WAYBACK_BASE, timestamp, "id_", original_url>>
    ELSE <<WAYBACK_BASE, timestamp, original_url>>

Get(record, key, default) == IF HasKey(record, key) THEN record[key] ELSE default

ResultRow(instance_name, record) ==
    LET ts == record["timestamp"]
        q == get_quarter(ts)
    IN [instance |-> instance_name,
        year |-> q[1],
        quarter |-> q[2],
        timestamp |-> ts,
        archive_url |-> build_wayback_url(ts, record["original"], FALSE),
        raw_url |-> build_wayback_url(ts, record["original"], TRUE),
        original_url |-> record["original"],
        mimetype |-> Get(record, "mimetype", ""),
        digest |-> Get(record, "digest", "")]

BuildResultsRaises(selected) ==
    \E k \in 1..Len(selected) : ~HasKey(selected[k], "original")

BuildResults(instance_name, selected) ==
    [k \in 1..Len(selected) |-> ResultRow(instance_name, selected[k])]

----------------------------------------------------------------------------
(* Inputs: timestamps, records, index payloads *)

\* "YYYYMMDD000000"
Stamp(y1, y2, y3, y4, m1, m2, d1, d2) ==
    <<y1, y2, y3, y4, m1, m2, d1, d2, 0, 0, 0, 0, 0, 0>>

T20230105 == Stamp(2, 0, 2, 3, 0, 1, 0, 5)
T20230215 == Stamp(2, 0, 2, 3, 0, 2, 1, 5)
T20230214 == Stamp(2, 0, 2, 3, 0, 2, 1, 4)
T20230216 == Stamp(2, 0, 2, 3, 0, 2, 1, 6)
T20230410 == Stamp(2, 0, 2, 3, 0, 4, 1, 0)
T20221201 == Stamp(2, 0, 2, 2, 1, 2, 0, 1)
TMonth00 == Stamp(2, 0, 2, 3, 0, 0, 1, 5)
TNonNumeric == Stamp(2, 0, 2, 3, 0, NonDigit, 1, 5)

Timestamps == {T20230105, T20230215, T20230214, T20230216, T20230410,
               T20221201, TMonth00, TNonNumeric}

Originals == {"https", "http"}

Fields == <<"timestamp", "original", "statuscode", "mimetype", "digest">>

\* dict(zip(fields, row)): pairs up to the shorter of the two; a repeated
\* field name keeps its last value
Zip(fields, row) ==
    LET n == IF Len(fields) < Len(row) THEN Len(fields) ELSE Len(row)
    IN [f \in {fields[k] : k \in 1..n} |->
            row[CHOOSE k \in 1..n : fields[k] = f /\ \A m \in (k + 1)..n : fields[m] # f]]

Row(ts, original) == <<ts, original, "200", "text/html", "digest">>

Rec(ts, original) == Zip(Fields, Row(ts, original))

\* Index payloads, as response.json() returns them.  array = FALSE is a JSON
\* value that is not an array (truthy: a non-empty object; falsy: null, {}).
ArrayPayload(rows) == [array |-> TRUE, truthy |-> rows # <<>>, rows |-> rows]

ObjectPayload(truthy) == [array |-> FALSE, truthy |-> truthy, rows |-> <<>>]

\* the three captures of the end-to-end example
ExampleTable(original) ==
    <<Fields, Row(T20230105, original), Row(T20230215, original),
      Row(T20230410, original)>>

\* two years out of order, and two captures at the same distance of the target
TieTable(original) ==
    <<Fields, Row(T20230216, original), Row(T20221201, original),
      Row(T20230214, original)>>

BodyKinds == {"empty", "header_only", "falsy", "object", "example", "tie",
              "non_numeric", "month_00", "no_timestamp", "no_original"}

Body(kind, scheme) ==
    CASE kind = "empty" -> ArrayPayload(<<>>)
      [] kind = "header_only" -> ArrayPayload(<<Fields>>)
      [] kind = "falsy" -> ObjectPayload(FALSE)
      [] kind = "object" -> ObjectPayload(TRUE)
      [] kind = "example" -> ArrayPayload(ExampleTable(scheme))
      [] kind = "tie" -> ArrayPayload(TieTable(scheme))
      [] kind = "non_numeric" -> ArrayPayload(<<Fields, Row(TNonNumeric, scheme)>>)
      [] kind = "month_00" -> ArrayPayload(<<Fields, Row(TMonth00, scheme)>>)
      [] kind = "no_timestamp" -> ArrayPayload(<<<<"original">>, <<scheme>>>>)
      [] OTHER -> ArrayPayload(<<<<"timestamp">>, <<T20230215>>>>)

Payloads(scheme) == {Body(kind, scheme) : kind \in index}

\* what requests.get + raise_for_status + response.json() can produce
CdxResponses(scheme) ==
    {[kind |-> "RequestException", payload |-> ObjectPayload(FALSE)],
     [kind |-> "bad_json", payload |-> ObjectPayload(FALSE)]}
    \cup {[kind |-> "json", payload |-> p] : p \in Payloads(scheme)}

\* what the request log keeps of a response
Shape(response) ==
    IF response.kind = "json" /\ response.payload.truthy /\ ~response.payload.array
    THEN "not_tabular" ELSE response.kind

\* lines 47-56 of fetch_cdx_records on a decoded payload
ParseRaises(data) == data.truthy /\ ~data.array

ParseRecords(data) ==
    IF ~data.truthy THEN <<>>
    ELSE [k \in 1..(Len(data.rows) - 1) |-> Zip(data.rows[1], data.rows[k + 1])]

----------------------------------------------------------------------------
(* The retry loops *)

\* for attempt in range(retries): the loop is over
LoopOver(a, n) == a >= n

\* a loop that gives up one attempt early
RetryAgainGivesUpEarly(a, n) == a < n - 2

\* if attempt < retries - 1: sleep and continue
RetryAgain(a, n) == a < n - 1

RECURSIVE Pow2(_)
Pow2(n) == IF n <= 0 THEN 1 ELSE 2 * Pow2(n - 1)

\* a delay of 2 * attempt instead of 2 ** attempt
BackoffProduct(a) == 2 * a

\* time.sleep(2 ** attempt)
Backoff(a) == Pow2(a)

\* The except clause that handles the exception of response.json().  Since
\* requests 2.27 it is requests.exceptions.JSONDecodeError, which derives from
\* RequestException as well as from json.JSONDecodeError, so the first clause
\* (line 58) takes it; an older requests raises a plain json.JSONDecodeError,
\* which the second clause (line 64) takes.
BadJsonRetries == json_error_class = "RequestException"

----------------------------------------------------------------------------
(* Initial states *)

\* host lists: the first hosts of a list of distinct names that is not in
\* alphabetical order (the list handed to the batch is deduplicated)
HostFile == <<"b.example", "a.example", "c.example", "d.example">>

HostLists(n) == {SubSeq(HostFile, 1, k) : k \in 0..n}

\* the download directory may hold a snapshot of an earlier invocation
OldFiles == {{}, {[path |-> <<"b.example", 2023, 1>>, content |-> "complete"]}}

InitRun ==
    /\ run = 1
    /\ previous = ""
    /\ selected_before = {}
    /\ pc = "loop"
    /\ i = 1
    /\ url = "https"
    /\ attempt = 0
    /\ records = <<>>
    /\ quarterly = <<>>
    /\ results = <<>>
    /\ all_results = <<>>
    /\ j = 1
    /\ requests = <<>>
    /\ slept = <<>>
    /\ queries = <<>>
    /\ success = FALSE
    /\ writes = 0
    /\ error = ""

Init ==
    /\ instances \in HostLists(MaxHosts)
    /\ download_dir \in BOOLEAN
    /\ retries = DefaultRetries
    /\ json_error_class \in {"RequestException", "JSONDecodeError"}
    /\ index = BodyKinds
    /\ files \in OldFiles
    /\ InitRun

----------------------------------------------------------------------------
(* main: the host loop *)

Config == <<instances, download_dir, retries, json_error_class, index>>

History == <<run, previous, selected_before>>

\* for i, instance in enumerate(instances): results = process_instance(instance)
\* process_instance starts with the https query
HostLoop ==
    /\ pc = "loop"
    /\ i <= Len(instances)
    /\ pc' = "fetch"
    /\ url' = "https"
    /\ attempt' = 0
    /\ requests' = <<>>
    /\ slept' = <<>>
    /\ UNCHANGED <<Config, History, i, records, quarterly, results, all_results,
                   j, files, queries, success, writes, error>>

\* the loop is over: main goes on to the output
HostLoopEnd ==
    /\ pc = "loop"
    /\ i > Len(instances)
    /\ pc' = "write"
    /\ UNCHANGED <<Config, History, i, url, attempt, records, quarterly, results,
                   all_results, j, files, requests, slept, queries, success,
                   writes, error>>

\* an exception nobody catches ends the run
Raise(exception) ==
    /\ pc' = "aborted"
    /\ error' = exception

----------------------------------------------------------------------------
(* fetch_cdx_records *)

\* every request of the call failed in transport
AllFailed(log) ==
    /\ log # <<>>
    /\ \A k \in 1..Len(log) : log[k] = "RequestException"

FetchReturn(value) ==
    /\ pc' = "fetched"
    /\ records' = value
    /\ queries' = Append(queries, [scheme |-> url, returned |-> value,
                                   exhausted |-> AllFailed(requests')])
    /\ UNCHANGED <<attempt, slept, error>>

\* except requests.exceptions.RequestException
FetchFailed ==
    IF RetryAgain(attempt, retries)
    THEN /\ slept' = Append(slept, Backoff(attempt))
         /\ attempt' = attempt + 1
         /\ UNCHANGED <<pc, records, queries, error>>
    ELSE FetchReturn(<<>>)

\* one iteration of the retry loop, or the return after the loop
FetchAttempt ==
    /\ pc = "fetch"
    /\ IF LoopOver(attempt, retries)
       THEN /\ requests' = requests
            /\ FetchReturn(<<>>)
       ELSE \E response \in CdxResponses(url) :
            /\ requests' = Append(requests, Shape(response))
            /\ CASE response.kind = "RequestException" -> FetchFailed
                 [] response.kind = "bad_json" ->
                        IF BadJsonRetries THEN FetchFailed ELSE FetchReturn(<<>>)
                 [] OTHER ->
                        IF ParseRaises(response.payload)
                        THEN /\ Raise("KeyError")
                             /\ UNCHANGED <<attempt, slept, records, queries>>
                        ELSE FetchReturn(ParseRecords(response.payload))
    /\ UNCHANGED <<Config, History, i, url, quarterly, results, all_results, j,
                   files, success, writes>>

----------------------------------------------------------------------------
(* process_instance, after a query has returned *)

\* the locals of a retry loop that has returned are gone
CallOver ==
    /\ attempt' = 0
    /\ requests' = <<>>
    /\ slept' = <<>>

\* the second query is made whatever the first one returned
FallbackQueryAlways ==
    /\ pc = "fetched"
    /\ url = "https"
    /\ url' = "http"
    /\ pc' = "fetch"
    /\ attempt' = 0
    /\ requests' = <<>>
    /\ slept' = <<>>
    /\ UNCHANGED <<Config, History, i, records, quarterly, results, all_results,
                   j, files, queries, success, writes, error>>

\* if not records: records = fetch_cdx_records(alt_url)
FallbackQuery ==
    /\ pc = "fetched"
    /\ records = <<>>
    /\ url = "https"
    /\ url' = "http"
    /\ pc' = "fetch"
    /\ attempt' = 0
    /\ requests' = <<>>
    /\ slept' = <<>>
    /\ UNCHANGED <<Config, History, i, records, quarterly, results, all_results,
                   j, files, queries, success, writes, error>>

\* a host without records ends the run
NoArchivesStops ==
    /\ pc = "fetched"
    /\ records = <<>>
    /\ url = "http"
    /\ Raise("SystemExit")
    /\ CallOver
    /\ UNCHANGED <<Config, History, i, url, records, quarterly, results,
                   all_results, j, files, queries, success, writes>>

\* if not records: return []
NoArchives ==
    /\ pc = "fetched"
    /\ records = <<>>
    /\ url = "http"
    /\ results' = <<>>
    /\ pc' = "processed"
    /\ CallOver
    /\ UNCHANGED <<Config, History, i, url, records, quarterly, all_results, j,
                   files, queries, success, writes, error>>

\* the new results are put in front
ExtendInFront(all, new) == new \o all

\* main: all_results.extend(results)
Extend(all, new) == all \o new

\* quarterly = filter_quarterly(records), and the result rows
SelectQuarterly ==
    /\ pc = "fetched"
    /\ records # <<>>
    /\ IF filter_quarterly_raises(records)
       THEN /\ Raise(IF \E k \in 1..Len(records) : ~HasKey(records[k], "timestamp")
                     THEN "KeyError" ELSE "ValueError")
            /\ UNCHANGED <<quarterly, results>>
       ELSE IF BuildResultsRaises(filter_quarterly(records))
       THEN /\ Raise("KeyError")
            /\ quarterly' = filter_quarterly(records)
            /\ UNCHANGED results
       ELSE /\ quarterly' = filter_quarterly(records)
            /\ results' = BuildResults(instances[i], quarterly')
            /\ pc' = "processed"
            /\ UNCHANGED error
    /\ CallOver
    /\ UNCHANGED <<Config, History, i, url, records, all_results, j, files,
                   queries, success, writes>>

\* a main that also writes the output file after every host with results
CollectAndWrite ==
    /\ pc = "processed"
    /\ IF results # <<>>
       THEN /\ all_results' = Extend(all_results, results)
            /\ writes' = writes + 1
            /\ pc' = IF download_dir THEN "downloads" ELSE "next"
       ELSE /\ pc' = "next"
            /\ UNCHANGED <<all_results, writes>>
    /\ j' = 1
    /\ url' = "https"
    /\ records' = <<>>
    /\ quarterly' = <<>>
    /\ queries' = <<>>
    /\ UNCHANGED <<Config, History, i, attempt, results, files, requests, slept,
                   success, error>>

\* main, after process_instance has returned (its locals are gone):
\* if results: all_results.extend(results), then the downloads if a download
\* directory is given; else: print("no archives found")
Collect ==
    /\ pc = "processed"
    /\ IF results # <<>>
       THEN /\ all_results' = Extend(all_results, results)
            /\ pc' = IF download_dir THEN "downloads" ELSE "next"
       ELSE /\ pc' = "next"
            /\ UNCHANGED all_results
    /\ j' = 1
    /\ url' = "https"
    /\ records' = <<>>
    /\ quarterly' = <<>>
    /\ queries' = <<>>
    /\ UNCHANGED <<Config, History, i, attempt, results, files, requests, slept,
                   success, writes, error>>

\* if i < len(instances) - 1: time.sleep(args.delay); next iteration
\* (the values the finished iteration left in its variables are dead)
NextHost ==
    /\ pc = "next"
    /\ i' = i + 1
    /\ pc' = "loop"
    /\ results' = <<>>
    /\ j' = 1
    /\ success' = FALSE
    /\ UNCHANGED <<Config, History, url, attempt, records, quarterly,
                   all_results, files, requests, slept, queries, writes, error>>

----------------------------------------------------------------------------
(* main: the download loop, and download_snapshot *)

\* f"{r['instance']}_{r['year']}Q{r['quarter']}.html" under download_dir
FilePath(r) == <<r.instance, r.year, r.quarter>>

\* a check that never finds the file
ExistsNever(path) == FALSE

\* os.path.exists(filepath)
Exists(path) == \E f \in files : f.path = path

\* for r in results: the loop is over
DownloadsEnd ==
    /\ pc = "downloads"
    /\ j > Len(results)
    /\ pc' = "next"
    /\ UNCHANGED <<Config, History, i, url, attempt, records, quarterly, results,
                   all_results, j, files, requests, slept, queries, success,
                   writes, error>>

\* if not os.path.exists(filepath): is false
SkipExisting ==
    /\ pc = "downloads"
    /\ j <= Len(results)
    /\ Exists(FilePath(results[j]))
    /\ j' = j + 1
    /\ UNCHANGED <<Config, History, i, url, attempt, records, quarterly, results,
                   all_results, pc, files, requests, slept, queries, success,
                   writes, error>>

\* download_snapshot(r["raw_url"], filepath) is called
StartDownload ==
    /\ pc = "downloads"
    /\ j <= Len(results)
    /\ ~Exists(FilePath(results[j]))
    /\ pc' = "download"
    /\ attempt' = 0
    /\ requests' = <<>>
    /\ slept' = <<>>
    /\ UNCHANGED <<Config, History, i, url, records, quarterly, results,
                   all_results, j, files, queries, success, writes, error>>

DownloadReturn(value) ==
    /\ pc' = "downloaded"
    /\ success' = value
    /\ UNCHANGED <<attempt, slept, error>>

\* with open(output_path, "wb") as f: f.write(response.content)
\* open creates or truncates the file; what it holds afterwards depends on
\* how far the write got
WriteFile(path, content) ==
    {f \in files : f.path # path} \cup {[path |-> path, content |-> content]}

\* one iteration of the retry loop, or the return after the loop
DownloadAttempt ==
    /\ pc = "download"
    /\ IF LoopOver(attempt, retries)
       THEN /\ DownloadReturn(FALSE)
            /\ UNCHANGED <<requests, files>>
       ELSE \E outcome \in {"RequestException", "open_fails", "write_fails", "written"} :
            /\ requests' = Append(requests, outcome)
            /\ CASE outcome = "RequestException" ->
                        /\ UNCHANGED files
                        /\ IF RetryAgain(attempt, retries)
                           THEN /\ slept' = Append(slept, Backoff(attempt))
                                /\ attempt' = attempt + 1
                                /\ UNCHANGED <<pc, success, error>>
                           ELSE DownloadReturn(FALSE)
                 [] outcome = "open_fails" ->
                        /\ Raise("OSError")
                        /\ UNCHANGED <<files, attempt, slept, success>>
                 [] outcome = "write_fails" ->
                        /\ Raise("OSError")
                        /\ files' = WriteFile(FilePath(results[j]), "partial")
                        /\ UNCHANGED <<attempt, slept, success>>
                 [] OTHER ->
                        /\ files' = WriteFile(FilePath(results[j]), "complete")
                        /\ DownloadReturn(TRUE)
    /\ UNCHANGED <<Config, History, i, url, records, quarterly, results,
                   all_results, j, queries, writes>>

\* time.sleep(0.5); next result
AfterDownload ==
    /\ pc = "downloaded"
    /\ j' = j + 1
    /\ pc' = "downloads"
    /\ CallOver
    /\ UNCHANGED <<Config, History, i, url, records, quarterly, results,
                   all_results, files, queries, success, writes, error>>

----------------------------------------------------------------------------
(* main: the output file, and a further invocation *)

\* if all_results: with open(args.output, "w") ...: writer.writerows(all_results)
WriteOutput ==
    /\ pc = "write"
    /\ IF all_results = <<>>
       THEN /\ pc' = "done"
            /\ UNCHANGED <<writes, error>>
       ELSE \E opened \in BOOLEAN :
            IF opened
            THEN /\ writes' = writes + 1
                 /\ pc' = "done"
                 /\ UNCHANGED error
            ELSE /\ Raise("OSError")
                 /\ UNCHANGED writes
    /\ UNCHANGED <<Config, History, i, url, attempt, records, quarterly, results,
                   all_results, j, files, requests, slept, queries, success>>

\* the program is invoked again with the same arguments; only the download
\* directory carries over
StartRun ==
    /\ pc \in {"done", "aborted"}
    /\ run < MaxRuns
    /\ run' = run + 1
    /\ previous' = pc
    /\ selected_before' = IF pc = "done"
                           THEN {FilePath(all_results[k]) : k \in 1..Len(all_results)}
                           ELSE {}
    /\ pc' = "loop"
    /\ i' = 1
    /\ url' = "https"
    /\ attempt' = 0
    /\ records' = <<>>
    /\ quarterly' = <<>>
    /\ results' = <<>>
    /\ all_results' = <<>>
    /\ j' = 1
    /\ requests' = <<>>
    /\ slept' = <<>>
    /\ queries' = <<>>
    /\ success' = FALSE
    /\ writes' = 0
    /\ error' = ""
    /\ UNCHANGED <<Config, files>>

----------------------------------------------------------------------------
(* Specifications *)

\* one invocation of main
Next ==
    \/ HostLoop
    \/ HostLoopEnd
    \/ FetchAttempt
    \/ FallbackQuery
    \/ NoArchives
    \/ SelectQuarterly
    \/ Collect
    \/ NextHost
    \/ DownloadsEnd
    \/ SkipExisting
    \/ StartDownload
    \/ DownloadAttempt
    \/ AfterDownload
    \/ WriteOutput

Spec == Init /\ [][Next]_vars

\* one invocation with any retry ceiling up to MaxRetries
InitRetry ==
    /\ instances \in HostLists(MaxHosts)
    /\ download_dir \in BOOLEAN
    /\ retries \in 0..MaxRetries
    /\ json_error_class = "RequestException"
    /\ index = BodyKinds
    /\ files \in OldFiles
    /\ InitRun

SpecRetry == InitRetry /\ [][Next]_vars

\* repeated invocations on the same download directory, with an index that
\* answers with the example table, with nothing, or with an error object
InitRerun ==
    /\ instances \in HostLists(MaxRerunHosts)
    /\ download_dir = TRUE
    /\ retries = DefaultRetries
    /\ json_error_class = "RequestException"
    /\ index = {"empty", "example", "object"}
    /\ files = {}
    /\ InitRun

NextRerun == Next \/ StartRun

SpecRerun == InitRerun /\ [][NextRerun]_vars

\* filter_quarterly and the result rows on every record list up to MaxLen:
\* the state in which a query has just returned the list
Records == {Rec(ts, original) : ts \in Timestamps, original \in Originals}

RECURSIVE RecordLists(_)
RecordLists(n) ==
    IF n = 0 THEN {<<>>}
    ELSE RecordLists(n - 1) \cup
         {Append(l, r) : l \in {m \in RecordLists(n - 1) : Len(m) = n - 1},
                         r \in Records}

InitSel ==
    /\ instances = <<"a.example">>
    /\ download_dir = FALSE
    /\ retries = DefaultRetries
    /\ json_error_class = "RequestException"
    /\ index = BodyKinds
    /\ run = 1
    /\ previous = ""
    /\ selected_before = {}
    /\ files = {}
    /\ pc = "fetched"
    /\ i = 1
    /\ url = "https"
    /\ attempt = 0
    /\ records \in RecordLists(MaxLen) \ {<<>>}
    /\ quarterly = <<>>
    /\ results = <<>>
    /\ all_results = <<>>
    /\ j = 1
    /\ requests = <<"json">>
    /\ slept = <<>>
    /\ queries = <<[scheme |-> "https", returned |-> records,
                    exhausted |-> FALSE]>>
    /\ success = FALSE
    /\ writes = 0
    /\ error = ""

NextSel == SelectQuarterly

SpecSel == InitSel /\ [][NextSel]_vars

----------------------------------------------------------------------------
(* Properties *)

TypeOK == pc \in {"loop", "fetch", "fetched", "processed", "next", "downloads", "download",
                  "downloaded", "write", "done", "aborted"}

\* process_instance has selected the quarterly records of `records`
HasSelected ==
    /\ records # <<>>
    /\ pc = "processed"

KeyOf(record) == get_quarter(record["timestamp"])

ResultKey(r) == <<r.year, r.quarter>>

\* C1: the list filter_quarterly returns for a non-empty input holds exactly
\* one record for each (year, quarter) key of the input, every returned
\* record is a record of the input, and the results of process_instance hold
\* one row per selected record, with pairwise different (year, quarter), each
\* row carrying the key of the group its record was selected from.
C1_OnePerQuarter ==
    HasSelected =>
        /\ \A key \in QuarterKeys(records) :
              Cardinality({k \in 1..Len(quarterly) : KeyOf(quarterly[k]) = key}) = 1
        /\ \A k \in 1..Len(quarterly) :
              \E m \in 1..Len(records) : records[m] = quarterly[k]
        /\ Len(results) = Len(quarterly)
        /\ \A k \in 1..Len(results) :
              /\ ResultKey(results[k]) = SortedKeys(QuarterKeys(records))[k]
              /\ results[k].timestamp = quarterly[k]["timestamp"]
              /\ KeyOf(quarterly[k]) = ResultKey(results[k])
        /\ \A p, q \in 1..Len(results) :
              p # q => ResultKey(results[p]) # ResultKey(results[q])

\* three records in two quarters gave two results
C1_Witness ==
    /\ HasSelected
    /\ Len(records) = 3
    /\ Cardinality(QuarterKeys(records)) = 2
    /\ Len(results) = 2

\* the middle month of quarters 1..4
MiddleMonth == <<2, 5, 8, 11>>

\* |YYYYMMDD - YYYYMM15| of a record of a quarter 1..4
MidQuarterDistance(record) ==
    LET key == KeyOf(record)
        date == ToInt(Slice(record["timestamp"], 8))
        mid == key[1] * 10000 + MiddleMonth[key[2]] * 100 + 15
    IN IF date < mid THEN mid - date ELSE date - mid

\* the first position of `records` whose record has the least distance of
\* its quarter
FirstClosest(key) ==
    LET group == {m \in 1..Len(records) : KeyOf(records[m]) = key}
    IN CHOOSE m \in group :
          \A n \in group :
              /\ MidQuarterDistance(records[m]) <= MidQuarterDistance(records[n])
              /\ n < m => MidQuarterDistance(records[m]) < MidQuarterDistance(records[n])

ExampleRecords(original) ==
    <<Rec(T20230105, original), Rec(T20230215, original), Rec(T20230410, original)>>

\* C2: in every quarter group the selected record is the first record of the
\* input among those at the least distance |YYYYMMDD - YYYYMM15| of the
\* quarter's middle month; the example 20230105, 20230215, 20230410 selects
\* 20230215 for Q1-2023 and the April record for Q2-2023.
C2_ClosestToMidQuarter ==
    HasSelected =>
        /\ \A k \in 1..Len(quarterly) :
              KeyOf(quarterly[k])[2] \in 1..4 =>
                  quarterly[k] = records[FirstClosest(KeyOf(quarterly[k]))]
        /\ \A original \in Originals :
              records = ExampleRecords(original) =>
                  quarterly = <<Rec(T20230215, original), Rec(T20230410, original)>>

\* two different records at the same distance: the first one was selected
C2_Witness ==
    /\ HasSelected
    /\ records = <<Rec(T20230216, "https"), Rec(T20230214, "https")>>
    /\ quarterly = <<Rec(T20230216, "https")>>

----------------------------------------------------------------------------

\* every entry of a request log is a transport failure
OnlyTransportFailures(log) ==
    \A k \in 1..Len(log) : log[k] = "RequestException"

\* C3: with retry ceiling N = retries, a call of fetch_cdx_records or of
\* download_snapshot whose requests all fail in transport makes exactly N
\* requests and returns [] (respectively False) without raising; no call ever
\* makes more than N requests.
C3_ExactlyNAttempts ==
    /\ Len(requests) <= retries
    /\ (pc = "fetched" /\ OnlyTransportFailures(requests)) =>
           (Len(requests) = retries /\ records = <<>> /\ error = "")
    /\ (pc = "downloaded" /\ OnlyTransportFailures(requests)) =>
           (Len(requests) = retries /\ success = FALSE /\ error = "")
    /\ (pc = "aborted" /\ requests # <<>>) =>
           requests[Len(requests)] # "RequestException"

\* a download gave up after the default three requests
C3_Witness ==
    /\ retries = DefaultRetries
    /\ pc = "downloaded"
    /\ requests = <<"RequestException", "RequestException", "RequestException">>
    /\ success = FALSE
    /\ error = ""

\* both queries of the current host ended after transport failures only
HostFailed ==
    /\ Len(queries) = 2
    /\ queries[1].exhausted
    /\ queries[2].exhausted

\* C4: a host whose https and http queries all fail in transport gets the
\* empty outcome and nothing else changes: the run is not ended, all_results
\* and the download directory stay as they were, and main moves on to the
\* next position of the host list, where the next host is processed.
C4_FailureIsolated ==
    [][/\ (HostFailed /\ pc \in {"fetched", "processed"}) =>
             /\ error' = ""
             /\ results' = <<>>
             /\ all_results' = all_results
             /\ files' = files
             /\ i' = i
             /\ pc' = IF pc = "fetched" THEN "processed" ELSE "next"
       /\ pc = "next" =>
             /\ error' = ""
             /\ all_results' = all_results
             /\ files' = files
             /\ i' = i + 1
             /\ pc' = "loop"
       /\ (pc = "loop" /\ i <= Len(instances)) => pc' = "fetch"]_vars

\* the first of two hosts failed and main is about to move to the second
C4_Witness ==
    /\ HostFailed
    /\ pc = "processed"
    /\ i = 1
    /\ Len(instances) = 2

\* C5 (as claimed): only a failure to write a downloaded file or the output
\* ends a run before all hosts are processed; no index response content does.
C5_OnlyPersistenceAborts == pc = "aborted" => error = "OSError"

\* C6 (as claimed): after a response whose body is unparsable or is not the
\* table of rows, fetch_cdx_records has returned [] at once: no error, no retry.
C6_MalformedIsEmpty ==
    (/\ pc \in {"fetch", "fetched", "aborted"}
     /\ requests # <<>>
     /\ requests[Len(requests)] \in {"bad_json", "not_tabular"})
    => (pc = "fetched" /\ records = <<>> /\ error = "")

\* process_instance has returned to main
Returned == pc = "processed"

\* C7: the first query of a host is the https one; the http query is made
\* once, and only after the https query returned the empty list; when both
\* are empty the outcome is empty, otherwise every result comes from a record
\* of the one query that returned records.
C7_ProtocolFallback ==
    /\ Len(queries) <= 2
    /\ Len(queries) >= 1 => queries[1].scheme = "https"
    /\ Len(queries) = 2 => (queries[2].scheme = "http" /\ queries[1].returned = <<>>)
    /\ (pc \in {"fetch", "fetched"} /\ url = "http") =>
           (Len(queries) >= 1 /\ queries[1].returned = <<>>)
    /\ Returned =>
           /\ Len(queries) >= 1
           /\ queries[1].returned # <<>> => Len(queries) = 1
           /\ queries[1].returned = <<>> => Len(queries) = 2
           /\ LET last == queries[Len(queries)]
              IN /\ last.returned = <<>> => results = <<>>
                 /\ last.returned # <<>> =>
                        /\ results # <<>>
                        /\ \A k \in 1..Len(results) :
                              /\ results[k].original_url = last.scheme
                              /\ \E m \in 1..Len(last.returned) :
                                    /\ last.returned[m]["timestamp"] = results[k].timestamp
                                    /\ last.returned[m]["original"] = results[k].original_url

\* the https query was empty and the http query gave the results
C7_Witness ==
    /\ Returned
    /\ Len(queries) = 2
    /\ results # <<>>
    /\ results[1].original_url = "http"

HostPosition(h) == CHOOSE k \in 1..Len(instances) : instances[k] = h

\* C8: in all_results the results of a host that is earlier in the host list
\* come before those of a later host, and the results of one host are
\* strictly ascending by (year, quarter).
C8_ResultOrder ==
    \A p, q \in 1..Len(all_results) :
        p < q =>
            LET a == all_results[p]
                b == all_results[q]
            IN /\ HostPosition(a.instance) <= HostPosition(b.instance)
               /\ a.instance = b.instance =>
                      \/ a.year < b.year
                      \/ (a.year = b.year /\ a.quarter < b.quarter)

\* two hosts with two quarters each, the first host's quarters in two years
C8_Witness ==
    /\ Len(all_results) = 4
    /\ all_results[1].instance = "b.example"
    /\ all_results[1].year < all_results[2].year
    /\ all_results[3].instance = "a.example"
    /\ all_results[4].instance = "a.example"

\* C9 (as claimed): an invocation that follows a completed one makes no
\* network download for a snapshot the completed one had selected.
C9_SecondRunDownloadsNothing ==
    ~(/\ run >= 2
      /\ previous = "done"
      /\ pc = "download"
      /\ FilePath(results[j]) \in selected_before)

\* C9 (amended): download_snapshot is only ever called for a destination
\* path at which no file exists, so a later invocation downloads nothing that
\* an earlier one has written.
C9_DownloadsOnlyMissing ==
    pc = "download" => ~(\E f \in files : f.path = FilePath(results[j]))

\* a second invocation went through a host's two selected snapshots, both
\* written by the first one, without a download
C9_Witness ==
    /\ run = 2
    /\ previous = "done"
    /\ pc = "downloads"
    /\ Len(results) = 2
    /\ j = 3
    /\ ~success
    /\ \A k \in 1..2 :
          /\ FilePath(results[k]) \in selected_before
          /\ \E f \in files : f.path = FilePath(results[k])

\* C10 (as claimed): a destination file that exists holds the complete body.
C10_NoPartialFile == \A f \in files : f.content = "complete"

----------------------------------------------------------------------------

\* C11 (as claimed): a run that completes has written the output file
\* exactly once.
C11_WrittenExactlyOnce == pc = "done" => writes = 1

\* C11 (amended): the output file is written at most once in a run; it is not
\* written before the host loop is over, nor while a host is processed or
\* downloaded; a run that completes has gone through the whole host list, and
\* has written the output once if it has any result and not at all otherwise.
C11_WrittenOnceAtEnd ==
    /\ writes <= 1
    /\ pc # "done" => writes = 0
    /\ pc \in {"write", "done"} => i = Len(instances) + 1
    /\ pc = "done" =>
           /\ error = ""
           /\ writes = IF all_results = <<>> THEN 0 ELSE 1

\* a run over two hosts completed and wrote the results of the last host, whose
\* snapshot was downloaded before
C11_Witness ==
    /\ pc = "done"
    /\ writes = 1
    /\ Len(instances) = 2
    /\ i = 3
    /\ all_results # <<>>
    /\ all_results[Len(all_results)].instance = instances[2]
    /\ \E f \in files : f.path = FilePath(all_results[Len(all_results)])

----------------------------------------------------------------------------

\* a call with the default ceiling has returned after all of its requests
\* failed in transport
ExhaustedDefault ==
    /\ retries = DefaultRetries
    /\ pc \in {"fetched", "downloaded"}
    /\ AllFailed(requests)

\* C12 (as claimed): with the default ceiling of 3 and every attempt failing
\* in transport, the failed attempts 0, 1, 2 are each followed by a sleep, of
\* 1, 2 and 4 seconds.
C12_SleepsAfterEveryFailure == ExhaustedDefault => slept = <<1, 2, 4>>

\* C12 (amended): with the default ceiling of 3 and every attempt failing in
\* transport, a failed attempt is followed by a sleep of 2^attempt seconds
\* only when another attempt follows: attempts 0 and 1 give sleeps of 1 and 2
\* seconds, the failure of attempt 2 is followed by no sleep, and the call
\* returns its sentinel ([] or False) without raising.
C12_SleepsBetweenAttempts ==
    /\ (retries = DefaultRetries /\ pc \in {"fetch", "download"}
            /\ OnlyTransportFailures(requests)) =>
           /\ attempt = Len(requests)
           /\ slept = SubSeq(<<1, 2>>, 1, Len(requests))
    /\ ExhaustedDefault =>
           /\ requests = <<"RequestException", "RequestException", "RequestException">>
           /\ slept = <<1, 2>>
           /\ error = ""
           /\ pc = "fetched" => records = <<>>
           /\ pc = "downloaded" => success = FALSE

\* a query gave up after three transport failures and two sleeps
C12_Witness ==
    /\ ExhaustedDefault
    /\ pc = "fetched"
    /\ Len(requests) = 3
    /\ slept = <<1, 2>>
    /\ records = <<>>

====
